---- MODULE Spec2Model ----
(***************************************************************************)
(* Telegram MCQ scheduler bot.  The model follows src/unnamed/part_001     *)
(* (the variant with posted_at / markMCQPosted); the two older variants    *)
(* (src/bot.js, src/unnamed/part_000) are modelled further down over the   *)
(* same variables.                                                         *)
(*                                                                         *)
(* Every async function is cut at its awaits.  An await on fs.readFile is  *)
(* two steps where the continuation touches shared state (the read takes   *)
(* its snapshot, the continuation runs later); fs.writeFile is two steps   *)
(* (the file is opened with truncation, then the text is written).         *)
(* A record keeps id, question, posted_at, telegram_poll_id, the number of *)
(* options and correct_index.  The question is the number of the upload    *)
(* that brought it (the records found in the file at start come first), so *)
(* a record can be told from another with the same id.                     *)
(* uploaded_by and uploaded_at are copied through unread and left out.     *)
(***************************************************************************)
EXTENDS Integers, Sequences, FiniteSets, TLC

\* ---- bounds of the model ------------------------------------------------
MaxTicks    == 2   \* postNextMCQIfAny invocations in flight at once
MaxHandlers == 2   \* upload handlers in flight at once
MaxUploads  == 2   \* addMCQ calls in a run
MaxRecords  == 3   \* records made in all, those found at start included
MaxTime     == 2   \* values of Date.now()
MaxSends    == 2   \* successful deliveries in a run
MaxFails    == 1   \* failed deliveries in a run
MaxUploadsOld == 1 \* addMCQ calls in a run of an older variant
MaxReads    == 1   \* /healthz, /pending and /preview requests in a run

NULL == 0

Ticks    == 1..MaxTicks
Handlers == 1..MaxHandlers

\* inputs of /upload: the number of tokens left after split/trim/filter
\* (0: empty payload) and the INDEX token (an integer, or not a number)
PartCounts == {0, 2, 3, 4, 13}
Indices    == {-1, 0, 2}
Uploads    == [private : BOOLEAN, parts : PartCounts, isInt : BOOLEAN, index : Indices]

VARIABLES
  variant,          \* which build runs: "part_001", "bot.js" or "part_000"
  proc,             \* "up", or "exited" once the process is gone
  reads,            \* requests answered by the read-only handlers
  file,             \* DB_FILE: [valid, doc]; valid = FALSE: missing or unparsable
  now,              \* the last value Date.now() returned
  schedulerHandle,  \* NULL or the Timeout returned by setInterval
  schedulerPaused,
  timers,           \* number of active interval timers
  tick,             \* tick[t]: one invocation of the timer callback
  hnd,              \* hnd[h]: one invocation of the upload handler
  init,             \* the start-up IIFE
  nUploads,         \* records made so far: found at start or sent to addMCQ
  assigned,         \* ids returned by addMCQ, in order of assignment
  acked,            \* ids for which the Delivery Port returned success
  wasPosted,        \* questions persisted with posted_at set at some time
  portOks,          \* times the Delivery Port returned success
  portFails,        \* times the Delivery Port failed
  markCalls,        \* calls of markMCQPosted
  replyFailed       \* a confirmation reply of the upload handler was rejected

env   == <<variant, proc, reads>>
sched == <<schedulerHandle, schedulerPaused, timers>>
ghost == <<assigned, acked, wasPosted, portOks, portFails, markCalls, replyFailed>>

vars == <<env, file, now, sched, tick, hnd, init, nUploads, ghost>>

\* ---- documents ------------------------------------------------------------
EmptyDoc == [nextId |-> 1, mcqs |-> <<>>]

Ids(mcqs) == {mcqs[i].id : i \in 1..Len(mcqs)}

MaxOf(S) == CHOOSE m \in S : \A x \in S : x <= m

\* loadDB: a missing or unparsable file reads as the empty document; a
\* document without nextId (0 here: absent or falsy) gets max id + 1.
loadDB(f) ==
  IF ~f.valid THEN EmptyDoc
  ELSE [nextId |-> IF f.doc.nextId = 0
                   THEN (IF Len(f.doc.mcqs) > 0 THEN MaxOf(Ids(f.doc.mcqs)) + 1 ELSE 1)
                   ELSE f.doc.nextId,
        mcqs   |-> f.doc.mcqs]

\* fs.writeFile opens DB_FILE with flag 'w': the file is empty until the text
\* is written.
Truncated == [valid |-> FALSE, doc |-> EmptyDoc]
Written(db) == [valid |-> TRUE, doc |-> db]

Pending(mcqs) == {i \in 1..Len(mcqs) : mcqs[i].posted_at = NULL}

\* db.mcqs.find(m => m.posted_at === null) || null, as the id found (the
\* scheduler reads nothing else of the record after the send).
FirstUnposted(db) ==
  IF Pending(db.mcqs) = {} THEN NULL
  ELSE db.mcqs[CHOOSE i \in Pending(db.mcqs) : \A j \in Pending(db.mcqs) : i <= j].id

\* the questions of the records of db that carry a posted_at
PostedIn(db) ==
  {db.mcqs[i].question : i \in {j \in 1..Len(db.mcqs) : db.mcqs[j].posted_at # NULL}}

\* db.mcqs.filter(m => m.posted_at === null).length
countPending(db) == Cardinality(Pending(db.mcqs))

\* addMCQ between its load and its save
NewEntry(db, q, n, c) ==
  [id |-> db.nextId, question |-> q, posted_at |-> NULL, telegram_poll_id |-> NULL,
   options |-> n, correct_index |-> c]

\* mutant of Appended: the entry is pushed and nextId is left as it was
Appended_keepsNextId(db, q, n, c) ==
  [nextId |-> db.nextId, mcqs |-> Append(db.mcqs, NewEntry(db, q, n, c))]

Appended(db, q, n, c) ==
  [nextId |-> db.nextId + 1, mcqs |-> Append(db.mcqs, NewEntry(db, q, n, c))]

\* db.mcqs.findIndex(m => m.id === id)
findIndex(db, id) ==
  IF \E i \in 1..Len(db.mcqs) : db.mcqs[i].id = id
  THEN CHOOSE i \in 1..Len(db.mcqs) :
         db.mcqs[i].id = id /\ \A j \in 1..(i - 1) : db.mcqs[j].id # id
  ELSE -1

\* markMCQPosted between its load and its save
Marked(db, id, pollId, t) ==
  [db EXCEPT !.mcqs[findIndex(db, id)] =
     [@ EXCEPT !.posted_at = t, !.telegram_poll_id = pollId]]

\* ---- processes --------------------------------------------------------------
IdleTick == [pc |-> "idle", mcq |-> NULL, poll |-> NULL, db |-> EmptyDoc]
IdleHnd  == [pc |-> "idle", db |-> EmptyDoc, question |-> 0, options |-> 0,
             correct_index |-> 0]

FreeTicks == {t \in Ticks : tick[t].pc = "idle"}
FreeTick  == CHOOSE t \in FreeTicks : \A u \in FreeTicks : t <= u

\* a call of postNextMCQIfAny runs to its first await: readFile is issued
Called == [IdleTick EXCEPT !.pc = "read"]

\* The state at process start: no DB_FILE yet, or the file of an earlier run
\* with one record posted and one pending (written by an older build: no
\* nextId, no poll id).
OldFile ==
  Written([nextId |-> 0,
           mcqs |-> <<[id |-> 1, question |-> 1, posted_at |-> 1,
                       telegram_poll_id |-> NULL, options |-> 2, correct_index |-> 0],
                      [id |-> 2, question |-> 2, posted_at |-> NULL,
                       telegram_poll_id |-> NULL, options |-> 2, correct_index |-> 0]>>])

Init ==
  /\ \/ file = Truncated /\ nUploads = 0 /\ acked = {} /\ wasPosted = {}
     \/ file = OldFile /\ nUploads = 2 /\ acked = {1} /\ wasPosted = {1}
  /\ variant = "part_001"
  /\ proc = "up"
  /\ reads = 0
  /\ replyFailed = FALSE
  /\ now = 1
  /\ schedulerHandle = NULL
  /\ schedulerPaused = TRUE
  /\ timers = 0
  /\ tick = [t \in Ticks |-> IdleTick]
  /\ hnd = [h \in Handlers |-> IdleHnd]
  /\ init = [pc |-> "count", n |-> 0, running |-> FALSE]
  /\ assigned = <<>>
  /\ portOks = 0 /\ portFails = 0 /\ markCalls = 0

\* ---- scheduler (part_001) ---------------------------------------------------
\* mutant of startScheduler: the handle is not looked at
startScheduler_always ==
  /\ FreeTicks # {}
  /\ schedulerPaused' = FALSE
  /\ tick' = [tick EXCEPT ![FreeTick] = Called]
  /\ schedulerHandle' = 1
  /\ timers' = timers + 1

\* function startScheduler(): with a handle it only clears the flag; without
\* one it calls postNextMCQIfAny once and sets the interval.
startScheduler ==
  IF schedulerHandle # NULL
  THEN /\ schedulerPaused' = FALSE
       /\ UNCHANGED <<schedulerHandle, timers, tick>>
  ELSE /\ FreeTicks # {}
       /\ schedulerPaused' = FALSE
       /\ tick' = [tick EXCEPT ![FreeTick] = Called]
       /\ schedulerHandle' = 1
       /\ timers' = timers + 1

\* mutant of pauseScheduler: the interval is cleared and the handle is kept
pauseScheduler_keepsHandle ==
  /\ timers' = IF schedulerHandle # NULL THEN timers - 1 ELSE timers
  /\ schedulerHandle' = schedulerHandle
  /\ schedulerPaused' = TRUE

\* mutant of pauseScheduler: the flag is set and the interval is left running
pauseScheduler_keepsTimer ==
  /\ UNCHANGED <<schedulerHandle, timers>>
  /\ schedulerPaused' = TRUE

\* function pauseScheduler()
pauseScheduler ==
  /\ timers' = IF schedulerHandle # NULL THEN timers - 1 ELSE timers
  /\ schedulerHandle' = NULL
  /\ schedulerPaused' = TRUE

\* setInterval(postNextMCQIfAny, INTERVAL_MS) fires
timerFire ==
  /\ proc = "up"
  /\ timers > 0
  /\ FreeTicks # {}
  /\ tick' = [tick EXCEPT ![FreeTick] = Called]
  /\ UNCHANGED <<env, file, now, sched, hnd, init, nUploads, ghost>>

\* getNextUnpostedMCQ: readFile completes
getNextUnpostedMCQ(t) ==
  /\ proc = "up"
  /\ tick[t].pc = "read"
  /\ tick' = [tick EXCEPT ![t].pc = "resume", ![t].mcq = FirstUnposted(loadDB(file))]
  /\ UNCHANGED <<env, file, now, sched, hnd, init, nUploads, ghost>>

\* postNextMCQIfAny resumes with mcq: pause and return, or call sendPoll
postNextMCQIfAny(t) ==
  /\ proc = "up"
  /\ tick[t].pc = "resume"
  /\ IF tick[t].mcq = NULL
     THEN /\ pauseScheduler
          /\ tick' = [tick EXCEPT ![t] = IdleTick]
     ELSE /\ tick' = [tick EXCEPT ![t].pc = "send"]
          /\ UNCHANGED sched
  /\ UNCHANGED <<env, file, now, hnd, init, nUploads, ghost>>

\* sendPoll resolves: pollId = res?.poll?.id || null, markMCQPosted is called.
\* Telegram numbers every poll it creates: the n-th delivery returns poll id n.
sendPollOk(t) ==
  /\ proc = "up"
  /\ tick[t].pc = "send"
  /\ portOks < MaxSends
  /\ tick' = [tick EXCEPT ![t].pc = "mark_load", ![t].poll = portOks + 1]
  /\ acked' = acked \cup {tick[t].mcq}
  /\ portOks' = portOks + 1
  /\ markCalls' = markCalls + 1
  /\ UNCHANGED <<env, file, now, sched, hnd, init, nUploads, assigned, wasPosted,
                 portFails, replyFailed>>

\* sendPoll rejects: the catch logs and the tick returns
sendPollFail(t) ==
  /\ proc = "up"
  /\ tick[t].pc = "send"
  /\ portFails < MaxFails
  /\ tick' = [tick EXCEPT ![t] = IdleTick]
  /\ portFails' = portFails + 1
  /\ UNCHANGED <<env, file, now, sched, hnd, init, nUploads, assigned, acked,
                 wasPosted, portOks, markCalls, replyFailed>>

\* markMCQPosted: loadDB completes; with the id found the record is stamped
\* with Date.now() = ts (no earlier than the last value read) and saveDB is
\* called, without it the function returns
markMCQPosted(t, ts) ==
  /\ proc = "up"
  /\ tick[t].pc = "mark_load"
  /\ LET db == loadDB(file) IN
       IF findIndex(db, tick[t].mcq) # -1
       THEN /\ ts >= now
            /\ now' = ts
            /\ tick' = [tick EXCEPT ![t].pc = "mark_save",
                                    ![t].db = Marked(db, tick[t].mcq, tick[t].poll, ts)]
       ELSE /\ ts = now
            /\ now' = now
            /\ tick' = [tick EXCEPT ![t] = IdleTick]
  /\ UNCHANGED <<env, file, sched, hnd, init, nUploads, ghost>>

\* saveDB of markMCQPosted: writeFile opens (truncates) the file
markSaveOpen(t) ==
  /\ proc = "up"
  /\ tick[t].pc = "mark_save"
  /\ file' = Truncated
  /\ tick' = [tick EXCEPT ![t].pc = "mark_saving"]
  /\ UNCHANGED <<env, now, sched, hnd, init, nUploads, ghost>>

\* saveDB of markMCQPosted: the text is written, the tick logs and returns
markSaveDone(t) ==
  /\ proc = "up"
  /\ tick[t].pc = "mark_saving"
  /\ file' = Written(tick[t].db)
  /\ wasPosted' = wasPosted \cup PostedIn(tick[t].db)
  /\ tick' = [tick EXCEPT ![t] = IdleTick]
  /\ UNCHANGED <<env, now, sched, hnd, init, nUploads, assigned, acked, portOks,
                 portFails, markCalls, replyFailed>>

\* ---- upload handler (part_001) ----------------------------------------------
\* the checks of bot.command('upload') between the payload and addMCQ; the
\* options are the tokens without the question and the INDEX
Accepts(u) ==
  /\ u.private
  /\ u.parts # 0
  /\ u.parts >= 3
  /\ u.isInt /\ u.index >= 0 /\ u.index < u.parts - 2
  /\ u.parts - 2 >= 2 /\ u.parts - 2 <= 10

\* an /upload arrives and is answered with an error text: nothing is stored
uploadRejected ==
  /\ proc = "up"
  /\ {u \in Uploads : ~Accepts(u)} # {}
  /\ UNCHANGED vars

\* an /upload arrives, passes the checks and calls addMCQ: readFile is issued
upload(h, u) ==
  /\ proc = "up"
  /\ nUploads < MaxRecords
  /\ Len(assigned) + Cardinality({g \in Handlers : hnd[g].pc = "load"}) < MaxUploads
  /\ hnd[h].pc = "idle"
  /\ \A g \in Handlers : g < h => hnd[g].pc # "idle"
  /\ Accepts(u)
  /\ nUploads' = nUploads + 1
  /\ hnd' = [hnd EXCEPT ![h] = [IdleHnd EXCEPT !.pc = "load",
                                               !.question = nUploads + 1,
                                               !.options = u.parts - 2,
                                               !.correct_index = u.index]]
  /\ UNCHANGED <<env, file, now, sched, tick, init, ghost>>

\* addMCQ: loadDB completes, the entry takes db.nextId++ and is pushed, saveDB
\* is called
addMCQ(h) ==
  /\ proc = "up"
  /\ hnd[h].pc = "load"
  /\ LET db == loadDB(file) IN
       /\ hnd' = [hnd EXCEPT ![h].pc = "save",
                             ![h].db = Appended(db, hnd[h].question, hnd[h].options,
                                                hnd[h].correct_index)]
       /\ assigned' = Append(assigned, db.nextId)
  /\ UNCHANGED <<env, file, now, sched, tick, init, nUploads, acked, wasPosted,
                 portOks, portFails, markCalls, replyFailed>>

\* saveDB of addMCQ: writeFile opens (truncates) the file
addSaveOpen(h) ==
  /\ proc = "up"
  /\ hnd[h].pc = "save"
  /\ file' = Truncated
  /\ hnd' = [hnd EXCEPT ![h].pc = "saving"]
  /\ UNCHANGED <<env, now, sched, tick, init, nUploads, ghost>>

\* saveDB of addMCQ: the text is written, addMCQ returns the entry and the
\* handler calls ctx.reply('MCQ queued')
addSaveDone(h) ==
  /\ proc = "up"
  /\ hnd[h].pc = "saving"
  /\ file' = Written(hnd[h].db)
  /\ wasPosted' = wasPosted \cup PostedIn(hnd[h].db)
  /\ hnd' = [hnd EXCEPT ![h].pc = "reply", ![h].db = EmptyDoc]
  /\ UNCHANGED <<env, now, sched, tick, init, nUploads, assigned, acked, portOks,
                 portFails, markCalls, replyFailed>>

\* ctx.reply('MCQ queued') resolves: if (schedulerPaused) startScheduler();
\* the reply that follows is the handler's last statement, whatever becomes
\* of it
replyOk(h) ==
  /\ proc = "up"
  /\ hnd[h].pc = "reply"
  /\ hnd' = [hnd EXCEPT ![h] = IdleHnd]
  /\ IF schedulerPaused
     THEN startScheduler
     ELSE UNCHANGED <<sched, tick>>
  /\ UNCHANGED <<env, file, now, init, nUploads, ghost>>

\* ctx.reply('MCQ queued') rejects (blocked bot, network): the handler throws
\* at the await and the rest of it does not run
replyFail(h) ==
  /\ proc = "up"
  /\ hnd[h].pc = "reply"
  /\ hnd' = [hnd EXCEPT ![h] = IdleHnd]
  /\ replyFailed' = TRUE
  /\ UNCHANGED <<env, file, now, sched, tick, init, nUploads, assigned, acked,
                 wasPosted, portOks, portFails, markCalls>>

\* ---- start-up ---------------------------------------------------------------
\* the IIFE: countPendingMCQs' readFile completes
initCount ==
  /\ proc = "up"
  /\ init.pc = "count"
  /\ init' = [pc |-> "resume", n |-> countPending(loadDB(file)), running |-> FALSE]
  /\ UNCHANGED <<env, file, now, sched, tick, hnd, nUploads, ghost>>

\* the IIFE resumes: if (count > 0) startScheduler(); init.running notes that
\* the call found the scheduler running
initResume ==
  /\ proc = "up"
  /\ init.pc = "resume"
  /\ init' = [pc |-> "done", n |-> 0, running |-> init.n > 0 /\ ~schedulerPaused]
  /\ IF init.n > 0
     THEN startScheduler
     ELSE UNCHANGED <<sched, tick>>
  /\ UNCHANGED <<env, file, now, hnd, nUploads, ghost>>

\* ---- read-only handlers (part_001) ----------------------------------------------
\* app.get('/healthz'): the reply holds schedulerPaused, countPendingMCQs()
\* and the time; nothing is assigned and saveDB is not called
healthz ==
  /\ proc = "up"
  /\ reads < MaxReads
  /\ LET reply == [ok |-> TRUE, schedulerPaused |-> schedulerPaused,
                   pending |-> countPending(loadDB(file)), time |-> now]
     IN reply.ok
  /\ reads' = reads + 1
  /\ UNCHANGED <<variant, proc, file, now, sched, tick, hnd, init, nUploads, ghost>>

\* bot.command('pending'): the reply holds countPendingMCQs()
pending ==
  /\ proc = "up"
  /\ reads < MaxReads
  /\ LET reply == countPending(loadDB(file)) IN reply >= 0
  /\ reads' = reads + 1
  /\ UNCHANGED <<variant, proc, file, now, sched, tick, hnd, init, nUploads, ghost>>

\* mutant of preview: the record shown is taken off the persisted list
preview_shifts ==
  /\ proc = "up"
  /\ reads < MaxReads
  /\ file' = Written([loadDB(file) EXCEPT !.mcqs = IF Len(@) > 0 THEN Tail(@) ELSE @])
  /\ reads' = reads + 1
  /\ UNCHANGED <<variant, proc, now, sched, tick, hnd, init, nUploads, ghost>>

\* bot.command('preview'): the reply shows getNextUnpostedMCQ() or 'No queued
\* MCQs.'
preview ==
  /\ proc = "up"
  /\ reads < MaxReads
  /\ LET mcq == FirstUnposted(loadDB(file)) IN mcq = NULL \/ mcq # NULL
  /\ reads' = reads + 1
  /\ UNCHANGED <<variant, proc, file, now, sched, tick, hnd, init, nUploads, ghost>>

\* ---- shutdown -----------------------------------------------------------------
\* process.on('SIGTERM'): bot.stop is awaited, then process.exit(0) ends the
\* process wherever the ticks and handlers are; what is in memory stays as it
\* was and is never used again
shutdown ==
  /\ proc = "up"
  /\ proc' = "exited"
  /\ variant' = variant
  /\ reads' = reads
  /\ UNCHANGED <<file, now, sched, tick, hnd, init, nUploads, ghost>>

Next ==
  \/ timerFire
  \/ \E t \in Ticks : getNextUnpostedMCQ(t)
  \/ \E t \in Ticks : postNextMCQIfAny(t)
  \/ \E t \in Ticks : sendPollOk(t)
  \/ \E t \in Ticks : sendPollFail(t)
  \/ \E t \in Ticks : \E ts \in 1..MaxTime : markMCQPosted(t, ts)
  \/ \E t \in Ticks : markSaveOpen(t)
  \/ \E t \in Ticks : markSaveDone(t)
  \/ uploadRejected
  \/ \E h \in Handlers : \E u \in {v \in Uploads : Accepts(v)} : upload(h, u)
  \/ \E h \in Handlers : addMCQ(h)
  \/ \E h \in Handlers : addSaveOpen(h)
  \/ \E h \in Handlers : addSaveDone(h)
  \/ \E h \in Handlers : replyOk(h)
  \/ \E h \in Handlers : replyFail(h)
  \/ initCount
  \/ initResume
  \/ healthz
  \/ pending
  \/ preview
  \/ shutdown

Spec == Init /\ [][Next]_vars

\* ---- the older variants (bot.js, part_000) ------------------------------------
\* The queue is the whole list: a record is removed once it is delivered.
\* bot.js sends the question text to the channel before the poll; part_000
\* sends the poll only (its db.mcqs.shift() works on the loaded copy and
\* returns the same record as db.mcqs[0]).
Legacy == {"bot.js", "part_000"}

\* the uploader of every record of the model
Uploader == 1

\* addMCQ between its load and its save
NewEntry_old(db, q, n, c) ==
  [id |-> db.nextId, question |-> q, options |-> n, correctIndex |-> c,
   uploader |-> Uploader]

Appended_old(db, q, n, c) ==
  [nextId |-> db.nextId + 1, mcqs |-> Append(db.mcqs, NewEntry_old(db, q, n, c))]

\* db.mcqs.length ? db.mcqs[0] : null, as the id found
getNextMCQ(db) == IF Len(db.mcqs) > 0 THEN db.mcqs[1].id ELSE NULL

\* db.mcqs.filter(q => q.id !== id)
Removed(db, id) == [db EXCEPT !.mcqs = SelectSeq(db.mcqs, LAMBDA m : m.id # id)]

\* the file of an earlier run: one record queued
OldQueue == Written(Appended_old(EmptyDoc, 1, 2, 0))

InitLegacy ==
  /\ variant \in Legacy
  /\ \/ file = Truncated /\ nUploads = 0
     \/ file = OldQueue /\ nUploads = 1
  /\ proc = "up"
  /\ reads = 0
  /\ replyFailed = FALSE
  /\ now = 1
  /\ schedulerHandle = NULL
  /\ schedulerPaused = TRUE
  /\ timers = 0
  /\ tick = [t \in Ticks |-> IdleTick]
  /\ hnd = [h \in Handlers |-> IdleHnd]
  /\ init = [pc |-> "done", n |-> 0, running |-> FALSE]
  /\ assigned = <<>>
  /\ acked = {} /\ wasPosted = {}
  /\ portOks = 0 /\ portFails = 0 /\ markCalls = 0

\* function startScheduler(): an old interval is cleared, a new one is set; no
\* attempt is made before the interval fires
startScheduler_old ==
  /\ schedulerPaused' = FALSE
  /\ timers' = (IF schedulerHandle # NULL THEN timers - 1 ELSE timers) + 1
  /\ schedulerHandle' = 1

\* getNextMCQ: readFile completes
readNextMCQ(t) ==
  /\ proc = "up"
  /\ tick[t].pc = "read"
  /\ tick' = [tick EXCEPT ![t].pc = "resume", ![t].mcq = getNextMCQ(loadDB(file))]
  /\ UNCHANGED <<env, file, now, sched, hnd, init, nUploads, ghost>>

\* postNextQuestion resumes with mcq: set the flag and return (the interval
\* is not cleared), or send
postNextQuestion(t) ==
  /\ proc = "up"
  /\ tick[t].pc = "resume"
  /\ IF tick[t].mcq = NULL
     THEN /\ schedulerPaused' = TRUE
          /\ UNCHANGED <<schedulerHandle, timers>>
          /\ tick' = [tick EXCEPT ![t] = IdleTick]
     ELSE /\ tick' = [tick EXCEPT ![t].pc = IF variant = "bot.js" THEN "message"
                                                                 ELSE "send"]
          /\ UNCHANGED sched
  /\ UNCHANGED <<env, file, now, hnd, init, nUploads, ghost>>

\* bot.js: sendMessage to the channel resolves, sendPoll is called
sendMessageOk(t) ==
  /\ proc = "up"
  /\ tick[t].pc = "message"
  /\ tick' = [tick EXCEPT ![t].pc = "send"]
  /\ UNCHANGED <<env, file, now, sched, hnd, init, nUploads, ghost>>

\* sendMessage or sendPoll rejects: nothing catches it, postNextQuestion ends
\* in an unhandled rejection, on which the runtime warns and goes on or ends
\* the process
sendRejected(t) ==
  /\ tick[t].pc \in {"message", "send"}
  /\ proc = "up"
  /\ portFails < MaxFails
  /\ tick' = [tick EXCEPT ![t] = IdleTick]
  /\ portFails' = portFails + 1
  /\ variant' = variant
  /\ reads' = reads
  /\ proc' \in {"up", "exited"}
  /\ UNCHANGED <<file, now, sched, hnd, init, nUploads, assigned, acked, wasPosted,
                 portOks, markCalls, replyFailed>>

\* sendPoll resolves: removeMCQ is called, readFile is issued
sendPollOk_old(t) ==
  /\ proc = "up"
  /\ tick[t].pc = "send"
  /\ portOks < MaxSends
  /\ tick' = [tick EXCEPT ![t].pc = "rm_load"]
  /\ acked' = acked \cup {tick[t].mcq}
  /\ portOks' = portOks + 1
  /\ UNCHANGED <<env, file, now, sched, hnd, init, nUploads, assigned, wasPosted,
                 portFails, markCalls, replyFailed>>

\* removeMCQ: loadDB completes, the record is filtered out, saveDB is called
removeMCQ(t) ==
  /\ proc = "up"
  /\ tick[t].pc = "rm_load"
  /\ tick' = [tick EXCEPT ![t].pc = "rm_save",
                          ![t].db = Removed(loadDB(file), tick[t].mcq)]
  /\ UNCHANGED <<env, file, now, sched, hnd, init, nUploads, ghost>>

\* saveDB of removeMCQ: writeFile opens (truncates) the file
removeSaveOpen(t) ==
  /\ proc = "up"
  /\ tick[t].pc = "rm_save"
  /\ file' = Truncated
  /\ tick' = [tick EXCEPT ![t].pc = "rm_saving"]
  /\ UNCHANGED <<env, now, sched, hnd, init, nUploads, ghost>>

\* saveDB of removeMCQ: the text is written, postNextQuestion returns
removeSaveDone(t) ==
  /\ proc = "up"
  /\ tick[t].pc = "rm_saving"
  /\ file' = Written(tick[t].db)
  /\ tick' = [tick EXCEPT ![t] = IdleTick]
  /\ UNCHANGED <<env, now, sched, hnd, init, nUploads, ghost>>

\* the checks of bot.command('upload'): no bound on the number of options
Accepts_old(u) ==
  /\ u.private
  /\ u.parts # 0
  /\ u.parts >= 3
  /\ u.isInt /\ u.index >= 0 /\ u.index < u.parts - 2

\* an /upload arrives and is answered with an error text: nothing is stored
uploadRejected_old ==
  /\ proc = "up"
  /\ {u \in Uploads : ~Accepts_old(u)} # {}
  /\ UNCHANGED vars

\* an /upload arrives, passes the checks and calls addMCQ: readFile is issued
upload_old(h, u) ==
  /\ proc = "up"
  /\ nUploads < MaxRecords
  /\ Len(assigned) + Cardinality({g \in Handlers : hnd[g].pc = "load"}) < MaxUploadsOld
  /\ hnd[h].pc = "idle"
  /\ \A g \in Handlers : g < h => hnd[g].pc # "idle"
  /\ Accepts_old(u)
  /\ nUploads' = nUploads + 1
  /\ hnd' = [hnd EXCEPT ![h] = [IdleHnd EXCEPT !.pc = "load",
                                               !.question = nUploads + 1,
                                               !.options = u.parts - 2,
                                               !.correct_index = u.index]]
  /\ UNCHANGED <<env, file, now, sched, tick, init, ghost>>

\* addMCQ: loadDB completes, the entry takes db.nextId++ and is pushed, saveDB
\* is called
addMCQ_old(h) ==
  /\ proc = "up"
  /\ hnd[h].pc = "load"
  /\ LET db == loadDB(file) IN
       /\ hnd' = [hnd EXCEPT ![h].pc = "save",
                             ![h].db = Appended_old(db, hnd[h].question, hnd[h].options,
                                                    hnd[h].correct_index)]
       /\ assigned' = Append(assigned, db.nextId)
  /\ UNCHANGED <<env, file, now, sched, tick, init, nUploads, acked, wasPosted,
                 portOks, portFails, markCalls, replyFailed>>

\* saveDB of addMCQ: the text is written, addMCQ returns the entry; the
\* handler calls ctx.reply without awaiting it, then
\* if (schedulerPaused) startScheduler(), and returns
addSaveDone_old(h) ==
  /\ proc = "up"
  /\ hnd[h].pc = "saving"
  /\ file' = Written(hnd[h].db)
  /\ hnd' = [hnd EXCEPT ![h].pc = "reply", ![h].db = EmptyDoc]
  /\ IF schedulerPaused
     THEN startScheduler_old
     ELSE UNCHANGED sched
  /\ UNCHANGED <<env, now, tick, init, nUploads, ghost>>

\* the reply sent by the handler resolves
replyOk_old(h) ==
  /\ proc = "up"
  /\ hnd[h].pc = "reply"
  /\ hnd' = [hnd EXCEPT ![h] = IdleHnd]
  /\ UNCHANGED <<env, file, now, sched, tick, init, nUploads, ghost>>

\* the reply rejects: nothing awaits it, an unhandled rejection
replyFail_old(h) ==
  /\ proc = "up"
  /\ hnd[h].pc = "reply"
  /\ hnd' = [hnd EXCEPT ![h] = IdleHnd]
  /\ replyFailed' = TRUE
  /\ variant' = variant
  /\ reads' = reads
  /\ proc' \in {"up", "exited"}
  /\ UNCHANGED <<file, now, sched, tick, init, nUploads, assigned, acked,
                 wasPosted, portOks, portFails, markCalls>>

\* bot.command('preview'): the reply shows db.mcqs[0] or 'No questions
\* queued.'
preview_old ==
  /\ proc = "up"
  /\ reads < MaxReads
  /\ LET mcq == getNextMCQ(loadDB(file)) IN mcq = NULL \/ mcq # NULL
  /\ reads' = reads + 1
  /\ UNCHANGED <<variant, proc, file, now, sched, tick, hnd, init, nUploads, ghost>>

NextLegacy ==
  \/ timerFire
  \/ \E t \in Ticks : readNextMCQ(t)
  \/ \E t \in Ticks : postNextQuestion(t)
  \/ \E t \in Ticks : sendMessageOk(t)
  \/ \E t \in Ticks : sendRejected(t)
  \/ \E t \in Ticks : sendPollOk_old(t)
  \/ \E t \in Ticks : removeMCQ(t)
  \/ \E t \in Ticks : removeSaveOpen(t)
  \/ \E t \in Ticks : removeSaveDone(t)
  \/ uploadRejected_old
  \/ \E h \in Handlers : \E u \in {v \in Uploads : Accepts_old(v)} : upload_old(h, u)
  \/ \E h \in Handlers : addMCQ_old(h)
  \/ \E h \in Handlers : addSaveOpen(h)
  \/ \E h \in Handlers : addSaveDone_old(h)
  \/ \E h \in Handlers : replyOk_old(h)
  \/ \E h \in Handlers : replyFail_old(h)
  \/ preview_old

SpecLegacy == InitLegacy /\ [][NextLegacy]_vars

\* ---- properties ---------------------------------------------------------------
Doc == loadDB(file)

\* a delivery attempt is in flight from its read of the next pending record
\* to its return
InFlight(t) == tick[t].pc \in {"resume", "send", "mark_load", "mark_save", "mark_saving"}

\* no addMCQ and no markMCQPosted is between its call and its return
StoreIdle ==
  /\ \A h \in Handlers : hnd[h].pc \notin {"load", "save", "saving"}
  /\ \A t \in Ticks : tick[t].pc \notin {"mark_load", "mark_save", "mark_saving"}

\* C1: at no time are two delivery attempts in flight at once.
C1_NoOverlappingAttempts == Cardinality({t \in Ticks : InFlight(t)}) <= 1

\* C2: once the mutating Store calls have returned, the persisted document
\* holds the effect of all of them: every record appended is in it, and every
\* record that markMCQPosted was called for carries its posted mark.
C2_NoLostUpdate ==
  StoreIdle =>
    /\ \A q \in 1..nUploads : \E i \in 1..Len(Doc.mcqs) : Doc.mcqs[i].question = q
    /\ \A i \in 1..Len(Doc.mcqs) :
         Doc.mcqs[i].id \in acked => Doc.mcqs[i].posted_at # NULL

\* C3: the ids addMCQ assigns are pairwise distinct and strictly increasing in
\* the order of assignment.
C3_IdsStrictlyIncreasing ==
  \A i, j \in 1..Len(assigned) : i < j => assigned[i] < assigned[j]

\* C4: a record that was persisted with posted_at set never shows posted_at
\* null again, and posted_at is set only for a record the Delivery Port
\* acknowledged.
C4_PostedNeverReverts ==
  \A i \in 1..Len(Doc.mcqs) :
    /\ Doc.mcqs[i].question \in wasPosted => Doc.mcqs[i].posted_at # NULL
    /\ Doc.mcqs[i].posted_at # NULL => Doc.mcqs[i].id \in acked

\* the ids of the records of db that are pending
PendingIds(db) == {db.mcqs[i].id : i \in Pending(db.mcqs)}

\* tick t hands its record to the Delivery Port in this step
Passes(t) == tick[t].pc = "resume" /\ tick'[t].pc = "send"

\* C5: FIFO delivery: no record is passed to the Delivery Port while a record
\* with a smaller id is pending in the store.
C5_FifoDelivery ==
  [][\A t \in Ticks :
       Passes(t) => \A id \in PendingIds(Doc) : tick[t].mcq <= id]_vars

\* tick t returns from the catch of postNextMCQIfAny in this step
Fails(t) == tick[t].pc = "send" /\ tick'[t].pc = "idle"

\* the run in which the ticks are the only users of the store: it starts on
\* the old file and no upload has been accepted
TicksOnly == nUploads = 2 /\ assigned = <<>> /\ \A h \in Handlers : hnd[h].pc = "idle"

TicksIdle == \A t \in Ticks : tick[t].pc = "idle"

\* tick t ends in this step on a rejected send
SendFails(t) == tick[t].pc \in {"message", "send"} /\ tick'[t].pc = "idle"

\* C6: in every variant a failed delivery leaves the record in the store and
\* the scheduler going: the process lives on, the file, the flag and the
\* timer are as before, so that the next tick attempts the same record.
C6_RetryAfterFailure ==
  [][\A t \in Ticks :
       SendFails(t) => proc' = "up" /\ UNCHANGED <<file, sched>>]_vars

\* part_001 alone: a failed delivery leaves the store and the scheduler as
\* they are (the record stays pending, the timer stays set, the next tick
\* reads the same head record) and calls markMCQPosted not at all;
\* markMCQPosted is called once for each success of the port; with one
\* failure and then one success the record is pending until the success and
\* posted once the ticks are back.
RetryOnFailure_part001 ==
  /\ [][\A t \in Ticks :
          Fails(t) => /\ UNCHANGED <<file, sched, markCalls>>
                      /\ FirstUnposted(loadDB(file')) = FirstUnposted(Doc)]_vars
  /\ [](markCalls = portOks)
  /\ [](TicksOnly /\ portOks = 0
          => /\ file = OldFile
             /\ init.pc = "done" => ~schedulerPaused /\ timers = 1)
  /\ [](TicksOnly /\ portFails = 1 /\ portOks = 1 /\ TicksIdle
          => /\ file.valid
             /\ Doc.mcqs[2].posted_at # NULL
             /\ markCalls = 1)

\* part_001: the port failed once, then succeeded, and the record is posted
RetryWitness_part001 ==
  /\ TicksOnly /\ portFails = 1 /\ portOks = 1 /\ markCalls = 1
  /\ TicksIdle
  /\ file.valid /\ Doc.mcqs[2].posted_at # NULL

\* the run of the pause/resume cycle: it starts without a file and one upload
\* is accepted; the upload is over once its handler has returned unthrown
OneUpload  == nUploads = 1
UploadDone == OneUpload /\ ~replyFailed /\ \A h \in Handlers : hnd[h].pc = "idle"

\* tick t finds no pending record and returns in this step
FindsNone(t) == tick[t].pc = "resume" /\ tick[t].mcq = NULL /\ tick'[t].pc = "idle"

Ends(h) == hnd[h].pc = "reply" /\ hnd'[h].pc = "idle"

\* C8: an upload handler that has appended never ends with the scheduler left
\* PAUSED: whatever becomes of its other steps, the scheduler is RUNNING, the
\* timer is set and one delivery attempt has been issued.
C8_AppendStartsScheduler ==
  [][\A h \in Handlers :
       Ends(h) /\ schedulerPaused
         => /\ ~schedulerPaused' /\ timers' = 1
            /\ \E t \in Ticks : tick[t].pc = "idle" /\ tick'[t].pc = "read"]_vars

\* C9: in every variant a tick that finds the queue empty leaves the scheduler
\* PAUSED with its timer stopped.
C9_EmptyQueueStopsTimer ==
  [][\A t \in Ticks :
       FindsNone(t) => schedulerPaused' /\ timers' = 0]_vars

\* tick t stamps its record in markMCQPosted in this step
Stamps(t) == tick[t].pc = "mark_load" /\ tick'[t].pc = "mark_save"

\* C10: markMCQPosted on a record that already carries posted_at leaves its
\* posted_at and telegram_poll_id as the first call set them.
C10_MarkPostedIdempotent ==
  [][\A t \in Ticks :
       Stamps(t) =>
         LET i == findIndex(Doc, tick[t].mcq) IN
           Doc.mcqs[i].posted_at # NULL
             => /\ tick'[t].db.mcqs[i].posted_at = Doc.mcqs[i].posted_at
                /\ tick'[t].db.mcqs[i].telegram_poll_id = Doc.mcqs[i].telegram_poll_id]_vars

\* C11: the pending count is the number of appends less the number of
\* deliveries: once the mutating Store calls have returned, count_pending
\* equals the records appended (those found at start included) less the
\* records the Delivery Port has acknowledged.
C11_PendingAccounting ==
  StoreIdle => countPending(Doc) = nUploads - Cardinality(acked)

\* the correct index of a stored record (correct_index in part_001,
\* correctIndex in the older variants)
IndexOf(m) == IF "correct_index" \in DOMAIN m THEN m.correct_index ELSE m.correctIndex

\* C12: every record in the store has between 2 and 10 options and a correct
\* index within them: the upload handler stores no other record.
C12_AdmittedRecordsValid ==
  \A i \in 1..Len(Doc.mcqs) :
    /\ Doc.mcqs[i].options >= 2 /\ Doc.mcqs[i].options <= 10
    /\ IndexOf(Doc.mcqs[i]) >= 0 /\ IndexOf(Doc.mcqs[i]) < Doc.mcqs[i].options

\* a saveDB that replaces a document with records in it is between its open
\* and its end
Interrupted ==
  \/ \E t \in Ticks : tick[t].pc = "mark_saving"
  \/ \E h \in Handlers : hnd[h].pc = "saving" /\ Len(hnd[h].db.mcqs) > 1

\* C13: a process that stops during saveDB leaves a file from which loadDB
\* returns a whole document, the one before or the new one: the records are
\* there and next_id is not back at 1.
C13_InterruptedWriteKeepsStore ==
  proc = "exited" /\ Interrupted
    => file.valid /\ Len(Doc.mcqs) > 0 /\ Doc.nextId > 1

\* a read-only operation answers in this step: a request to /healthz,
\* /pending or /preview, the scheduler's read of the next record, or the
\* count at start-up
ReadStep ==
  \/ reads' # reads
  \/ \E t \in Ticks : tick[t].pc = "read" /\ tick'[t].pc = "resume"
  \/ init.pc = "count" /\ init'.pc = "resume"

\* C14: the read-only operations change neither the persisted document nor
\* the scheduler state (paused flag, handle, timer).
C14_ReadsChangeNothing ==
  [][ReadStep => UNCHANGED <<file, schedulerPaused, schedulerHandle, timers>>]_vars

\* C14 witness: a request was answered and a tick has read its record, with
\* the record still pending in the file and the scheduler still running
C14_Witness ==
  /\ reads = 1 /\ proc = "up"
  /\ \E t \in Ticks : tick[t].pc = "resume" /\ tick[t].mcq # NULL
  /\ file.valid /\ countPending(Doc) > 0
  /\ ~schedulerPaused /\ schedulerHandle # NULL

\* startScheduler is called in this step with the scheduler RUNNING (the
\* upload handler calls it only if (schedulerPaused), so the call is the one
\* of the start-up block)
StartsRunning ==
  /\ init.pc = "resume" /\ init'.pc = "done" /\ init.n > 0
  /\ ~schedulerPaused

\* C15: startScheduler called while RUNNING changes nothing: no second timer,
\* the handle and the flag as they were, no delivery attempt issued.
C15_StartWhileRunningNoOp ==
  [][StartsRunning => ~schedulerPaused' /\ UNCHANGED <<schedulerHandle, timers, tick>>]_vars

\* C15 witness: the start-up block called startScheduler after an upload had
\* started the scheduler
C15_Witness ==
  /\ init.pc = "done" /\ init.running
  /\ ~schedulerPaused /\ schedulerHandle # NULL /\ timers = 1

\* C16: in the persisted document as loadDB returns it (a missing nextId
\* recomputed), and in the nextId the file itself holds, next_id is greater
\* than the id of every record.
C16_NextIdAboveIds ==
  /\ \A i \in 1..Len(Doc.mcqs) : Doc.nextId > Doc.mcqs[i].id
  /\ file.valid /\ file.doc.nextId # 0
       => \A i \in 1..Len(file.doc.mcqs) : file.doc.nextId > file.doc.mcqs[i].id

\* C16 witness: the file of the earlier run had no nextId; an append and a
\* mark have since been persisted
C16_Witness ==
  /\ file.valid /\ file.doc.nextId # 0
  /\ Len(Doc.mcqs) = 3 /\ Doc.mcqs[2].posted_at # NULL
  /\ Len(assigned) >= 1 /\ portOks >= 1
  /\ StoreIdle

\* the system is at rest: the process runs, start-up is over and no tick and
\* no upload handler is in flight
AtRest ==
  /\ proc = "up" /\ init.pc = "done"
  /\ TicksIdle
  /\ \A h \in Handlers : hnd[h].pc = "idle"

\* C17: no pending record is stranded: the system is never at rest with the
\* scheduler PAUSED and a pending record in the store (every upload handler
\* having run to its end).
C17_NoStrandedRecord ==
  AtRest /\ ~replyFailed /\ schedulerPaused => countPending(Doc) = 0

\* C18: a record the Delivery Port has acknowledged is not passed to the
\* Delivery Port again.
C18_NoDuplicateDelivery ==
  [][\A t \in Ticks : Passes(t) => tick[t].mcq \notin acked]_vars

\* startScheduler is called in this step: by the start-up block, or by an
\* upload handler whose confirmation reply went through
StartCalled ==
  \/ init.pc = "resume" /\ init'.pc = "done" /\ init.n > 0
  \/ \E h \in Handlers : Ends(h) /\ schedulerPaused /\ replyFailed' = replyFailed

\* C19: in part_001 schedulerPaused is true exactly when schedulerHandle is
\* null; there is one interval timer with a handle and none without; and
\* startScheduler finds a handle only with schedulerPaused already false.
C19_PausedIffNoHandle ==
  /\ [](schedulerPaused <=> schedulerHandle = NULL)
  /\ [](timers = IF schedulerHandle = NULL THEN 0 ELSE 1)
  /\ [][StartCalled /\ schedulerHandle # NULL => ~schedulerPaused]_vars

\* C19 witness: the start-up block started the scheduler, the pending record
\* was delivered and a tick that found nothing paused it
C19_Witness ==
  /\ TicksOnly /\ TicksIdle /\ init.pc = "done"
  /\ portOks >= 1 /\ file.valid /\ countPending(Doc) = 0
  /\ schedulerPaused /\ schedulerHandle = NULL /\ timers = 0

====
